---- MODULE Spec2Model ----
(***************************************************************************)
(* Find in Files (src/search/FindInFiles.js): the query compiler           *)
(* _getQueryRegExp, the match extractor _getSearchMatches, the renderer    *)
(* _showSearchResults and the orchestration doFindInFiles, for one run of  *)
(* the command.                                                            *)
(*                                                                         *)
(* The handlers run to completion one at a time. The done callback of a    *)
(* file's load is the one handler taken in steps, one per iteration of the *)
(* exec loop of _getSearchMatches, and no other handler runs between its   *)
(* steps. A loop that pushes the same empty match again and again is       *)
(* followed for MaxSpin repetitions.                                       *)
(*                                                                         *)
(* A string is a sequence of one-character strings; offsets, line numbers  *)
(* and columns are 0-based as in the source, so the character at offset i   *)
(* of s is s[i + 1].                                                        *)
(***************************************************************************)
EXTENDS Integers, Sequences, FiniteSets

(***************************************************************************)
(* Bounds of the explored inputs.                                          *)
(***************************************************************************)
MaxTextLen == 3
MaxBodyLen == 2
MaxFlagsLen == 2
MaxLiteralLen == 2
MaxFiles == 3
MaxSpin == 2

(***************************************************************************)
(* Program constants.                                                      *)
(***************************************************************************)
FIND_IN_FILES_MAX == 100
MaxExcerpt == 200

NL == "\n"
BS == "\\"

\* The value the dialog resolves with on Esc or blur (JavaScript null).
Null == << "null" >>

Min(a, b) == IF a < b THEN a ELSE b

\* s.substr(0, n)
Take(s, n) == SubSeq(s, 1, Min(n, Len(s)))

\* n copies of the string s, one after the other.
Repeat(s, n) ==
    SubSeq([i \in 1..(n * Len(s)) |-> s[((i - 1) % Len(s)) + 1]], 1, n * Len(s))

RECURSIVE SeqsUpTo(_, _)
SeqsUpTo(S, n) ==
    IF n <= 0 THEN { << >> }
    ELSE LET shorter == SeqsUpTo(S, n - 1)
         IN  shorter \cup { Append(s, c) : s \in shorter, c \in S }

(***************************************************************************)
(* The regular-expression engine, for the pattern sources this model       *)
(* reaches: literal characters, `.', the escapes \c and \n, and `*'.       *)
(***************************************************************************)
\* Canonicalize of the ignoreCase flag (toUpperCase) on the letters in use.
Canon(c) ==
    CASE c = "a" -> "A"
      [] c = "g" -> "G"
      [] c = "i" -> "I"
      [] c = "n" -> "N"
      [] OTHER   -> c

SyntaxError == [kind |-> "SyntaxError"]
NoRegExp == [kind |-> "none"]

LitAtom(c) == [any |-> FALSE, ch |-> c, star |-> FALSE]
AnyAtom == [any |-> TRUE, ch |-> ".", star |-> FALSE]

\* The parse of a pattern source from its i-th character on, acc being the
\* atoms read so far: ok is FALSE when the source is no pattern (a trailing
\* backslash, a `*' with nothing to repeat).
ParseError == [ok |-> FALSE, atoms |-> << >>]

RECURSIVE ParseFrom(_, _, _)
ParseFrom(src, i, acc) ==
    IF i > Len(src) THEN [ok |-> TRUE, atoms |-> acc]
    ELSE LET c == src[i] IN
         CASE c = BS ->
                IF i = Len(src) THEN ParseError
                ELSE LET d == src[i + 1]
                     IN  ParseFrom(src, i + 2,
                                   Append(acc, LitAtom(IF d = "n" THEN NL ELSE d)))
           [] c = "*" ->
                IF acc = << >> \/ acc[Len(acc)].star THEN ParseError
                ELSE ParseFrom(src, i + 1,
                               [acc EXCEPT ![Len(acc)].star = TRUE])
           [] c = "." -> ParseFrom(src, i + 1, Append(acc, AnyAtom))
           [] OTHER   -> ParseFrom(src, i + 1, Append(acc, LitAtom(c)))

\* new RegExp(source, flags); lastIndex starts at 0.
NewRegExp(source, flags) ==
    LET parsed == ParseFrom(source, 1, << >>) IN
    IF ~parsed.ok THEN SyntaxError
    ELSE [kind       |-> "RegExp",
          atoms      |-> parsed.atoms,
          global     |-> \E k \in 1..Len(flags) : flags[k] = "g",
          ignoreCase |-> \E k \in 1..Len(flags) : flags[k] = "i",
          lastIndex  |-> 0]

\* Whether one atom matches the character c (`.' matches all but line ends).
AtomMatches(atom, c, ic) ==
    IF atom.any THEN c # NL
    ELSE IF ic THEN Canon(atom.ch) = Canon(c) ELSE atom.ch = c

\* The least offset in lo..hi whose character the atom does not match, or
\* hi + 1. (The searches over a text halve their range, left half first,
\* which finds what a scan from lo to hi finds.)
RECURSIVE FirstMiss(_, _, _, _, _)
FirstMiss(atom, text, ic, lo, hi) ==
    IF lo > hi THEN hi + 1
    ELSE IF lo = hi
         THEN IF AtomMatches(atom, text[lo + 1], ic) THEN hi + 1 ELSE lo
         ELSE LET mid == (lo + hi) \div 2
                  left == FirstMiss(atom, text, ic, lo, mid)
              IN  IF left <= mid THEN left
                  ELSE FirstMiss(atom, text, ic, mid + 1, hi)

\* The number of characters from offset pos on that the atom matches.
RunLength(atom, text, pos, ic) ==
    FirstMiss(atom, text, ic, pos, Len(text) - 1) - pos

\* The backtracking matcher: the end offset of the match of atoms k.. at
\* offset pos, or -1. A starred atom is greedy: of the runs of lo..hi
\* characters it tries the longest first.
RECURSIVE MatchHere(_, _, _, _, _)
RECURSIVE MatchStar(_, _, _, _, _, _, _)
MatchHere(atoms, k, text, pos, ic) ==
    IF k > Len(atoms) THEN pos
    ELSE IF atoms[k].star
         THEN MatchStar(atoms, k, text, pos, ic, 0,
                        RunLength(atoms[k], text, pos, ic))
         ELSE IF pos < Len(text) /\ AtomMatches(atoms[k], text[pos + 1], ic)
              THEN MatchHere(atoms, k + 1, text, pos + 1, ic)
              ELSE -1
MatchStar(atoms, k, text, pos, ic, lo, hi) ==
    IF lo > hi THEN -1
    ELSE IF lo = hi THEN MatchHere(atoms, k + 1, text, pos + lo, ic)
    ELSE LET mid == (lo + hi) \div 2
             longer == MatchStar(atoms, k, text, pos, ic, mid + 1, hi)
         IN  IF longer # -1 THEN longer
             ELSE MatchStar(atoms, k, text, pos, ic, lo, mid)

NoMatch == [index |-> -1, end |-> -1]

\* The leftmost match starting at an offset of lo..hi, or NoMatch.
RECURSIVE FirstMatchIn(_, _, _, _)
FirstMatchIn(re, text, lo, hi) ==
    IF lo > hi THEN NoMatch
    ELSE IF lo = hi
         THEN LET e == MatchHere(re.atoms, 1, text, lo, re.ignoreCase)
              IN  IF e # -1 THEN [index |-> lo, end |-> e] ELSE NoMatch
         ELSE LET mid == (lo + hi) \div 2
                  left == FirstMatchIn(re, text, lo, mid)
              IN  IF left.index # -1 THEN left
                  ELSE FirstMatchIn(re, text, mid + 1, hi)

\* The leftmost match at or after offset from, or NoMatch.
FirstMatch(re, text, from) == FirstMatchIn(re, text, from, Len(text))

\* String.prototype.search: the offset of the first match, ignoring and
\* leaving alone lastIndex; -1 when there is none.
Search(text, re) == FirstMatch(re, text, 0).index

\* A variant: lastIndex after queryExpr.test(text), which moves it as exec does.
LastIndexAfterTest(re, text) ==
    LET m == FirstMatch(re, text, re.lastIndex)
    IN  IF m.index = -1 THEN 0 ELSE m.end

\* lastIndex after text.search(re): search leaves it as it was.
LastIndexAfterSearch(re, text) == re.lastIndex

\* RegExp.prototype.exec of a global pattern: the match found from lastIndex.
Exec(re, text) == FirstMatch(re, text, re.lastIndex)

\* lastIndex after that exec: the end of the match, 0 after a failure.
LastIndexAfter(m) == IF m.index = -1 THEN 0 ELSE m.end

(***************************************************************************)
(* _getQueryRegExp                                                         *)
(***************************************************************************)
FlagChars == {"g", "i"}

\* The offsets k of a closing slash that let /^\/(.*)\/(g|i)*$/ match: the
\* query starts with a slash, the body before k holds no line end and only
\* flag letters follow k.
ClosingSlashes(query) ==
    { k \in 2..Len(query) :
        /\ query[1] = "/"
        /\ query[k] = "/"
        /\ \A j \in 2..(k - 1) : query[j] # NL
        /\ \A j \in (k + 1)..Len(query) : query[j] \in FlagChars }

\* query.match(/^\/(.*)\/(g|i)*$/) is not null
IsRE(query) == ClosingSlashes(query) # {}

\* The greedy (.*) ends at the last closing slash that lets the rest match.
LastSlash(query) ==
    CHOOSE k \in ClosingSlashes(query) : \A j \in ClosingSlashes(query) : j <= k

\* isRE[1]: the body between the slashes.
REBody(query) == SubSeq(query, 2, LastSlash(query) - 1)

\* isRE[2]: what the group (g|i) captured. A group under `*' keeps its last
\* iteration only, so this is the last flag letter, or nothing (undefined).
RECapturedFlags(query) ==
    IF LastSlash(query) < Len(query) THEN << query[Len(query)] >> ELSE << >>

\* var flags = isRE[2] || "g"; if (flags.search("g") === -1) flags += "g";
REFlags(query) ==
    LET flags == IF RECapturedFlags(query) = << >> THEN << "g" >>
                 ELSE RECapturedFlags(query)
    IN  IF \E k \in 1..Len(flags) : flags[k] = "g" THEN flags
        ELSE Append(flags, "g")

\* The characters of the class [(){}\[\].\^$|?+*\\].
MetaChars == {"(", ")", "{", "}", "[", "]", ".", "^", "$", "|", "?", "+", "*", BS}

\* A variant: the class without the dot.
EscapeCharNoDot(c) == IF c \in MetaChars \ {"."} THEN << BS, c >> ELSE << c >>

\* The replacement "\\$1" of one character.
EscapeChar(c) == IF c \in MetaChars THEN << BS, c >> ELSE << c >>

\* query.replace(/([(){}\[\].\^$|?+*\\])/g, "\\$1")
RECURSIVE EscapeQuery(_)
EscapeQuery(query) ==
    IF query = << >> THEN << >>
    ELSE EscapeChar(Head(query)) \o EscapeQuery(Tail(query))

_getQueryRegExp(query) ==
    IF IsRE(query) THEN NewRegExp(REBody(query), REFlags(query))
    ELSE NewRegExp(EscapeQuery(query), << "g", "i" >>)

(***************************************************************************)
(* _getSearchMatches                                                       *)
(***************************************************************************)
\* The lines of the characters lo..hi of the text.
RECURSIVE SplitRange(_, _, _)
SplitRange(text, lo, hi) ==
    IF lo > hi THEN << << >> >>
    ELSE IF lo = hi
         THEN IF text[lo] = NL THEN << << >>, << >> >> ELSE << << text[lo] >> >>
         ELSE LET mid == (lo + hi) \div 2
                  left == SplitRange(text, lo, mid)
                  right == SplitRange(text, mid + 1, hi)
              IN  SubSeq(left, 1, Len(left) - 1)
                    \o << left[Len(left)] \o right[1] >> \o Tail(right)

\* StringUtils.getLines: text.split("\n")
getLines(text) == SplitRange(text, 1, Len(text))

\* The characters of the lines lo..hi, each with the line break ending it.
RECURSIVE TotalLength(_, _, _)
TotalLength(lines, lo, hi) ==
    IF lo > hi THEN 0
    ELSE IF lo = hi THEN Len(lines[lo]) + 1
    ELSE LET mid == (lo + hi) \div 2
         IN  TotalLength(lines, lo, mid) + TotalLength(lines, mid + 1, hi)

\* The line of lo..hi holding the offset, counted from the start of line lo.
RECURSIVE LineIn(_, _, _, _)
LineIn(lines, lo, hi, offset) ==
    IF lo >= hi THEN lo
    ELSE LET mid == (lo + hi) \div 2
             before == TotalLength(lines, lo, mid)
         IN  IF offset < before THEN LineIn(lines, lo, mid, offset)
             ELSE LineIn(lines, mid + 1, hi, offset - before)

\* StringUtils.offsetToLineNum: the 0-based line holding the offset, that is
\* the number of line breaks before it.
offsetToLineNum(lines, offset) == LineIn(lines, 1, Len(lines), offset) - 1

\* The last offset in lo..hi holding a line break, or -1.
RECURSIVE LastBreakIn(_, _, _)
LastBreakIn(contents, lo, hi) ==
    IF lo > hi THEN -1
    ELSE IF lo = hi THEN IF contents[lo + 1] = NL THEN lo ELSE -1
    ELSE LET mid == (lo + hi) \div 2
             right == LastBreakIn(contents, mid + 1, hi)
         IN  IF right # -1 THEN right ELSE LastBreakIn(contents, lo, mid)

\* contents.lastIndexOf("\n", from): the last line break at or before from.
lastIndexOfNL(contents, from) ==
    LastBreakIn(contents, 0, Min(from, Len(contents) - 1))

\* var ch = match.index - contents.lastIndexOf("\n", match.index) - 1
ColumnOf(contents, index) == index - lastIndexOfNL(contents, index) - 1

\* A variant: the whole line is stored.
ExcerptUntruncated(line) == line

\* line.substr(0, Math.min(200, line.length))
Excerpt(line) == Take(line, Min(MaxExcerpt, Len(line)))

\* The record pushed for one match of the exec loop.
MatchRecord(contents, lines, m) ==
    LET lineNum == offsetToLineNum(lines, m.index)
        ch == ColumnOf(contents, m.index)
    IN  [start |-> [line |-> lineNum, ch |-> ch],
         end   |-> [line |-> lineNum, ch |-> ch + (m.end - m.index)],
         line  |-> Excerpt(lines[lineNum + 1])]

(***************************************************************************)
(* _showSearchResults                                                      *)
(***************************************************************************)
\* A variant: <= in place of <.
RowFitsInclusive(resultsDisplayed) == resultsDisplayed <= FIND_IN_FILES_MAX

\* if (resultsDisplayed < FIND_IN_FILES_MAX)
RowFits(resultsDisplayed) == resultsDisplayed < FIND_IN_FILES_MAX

FileRow(item) == [kind |-> "file", fullPath |-> item.fullPath]

\* The row of one match: its 1-based line number and the match it opens.
MatchRow(item, match) ==
    [kind |-> "match", fullPath |-> item.fullPath,
     lineNumber |-> match.start.line + 1, match |-> match]

\* item.matches.forEach: the rows of the item's matches, each added while
\* fewer than FIND_IN_FILES_MAX rows are displayed (n rows are on entry).
MatchRows(item, n) ==
    LET fitting == { j \in 1..Len(item.matches) : RowFits(n + j - 1) }
        rows == [j \in 1..Cardinality(fitting) |-> MatchRow(item, item.matches[j])]
    IN  SubSeq(rows, 1, Cardinality(fitting))

NumMatchRows(rows) == Cardinality({ k \in 1..Len(rows) : rows[k].kind = "match" })

\* searchResults.forEach: a file row and the match rows of every item reached
\* while fewer than FIND_IN_FILES_MAX rows are displayed.
RECURSIVE ResultRows(_, _, _)
ResultRows(searchResults, k, n) ==
    IF k > Len(searchResults) THEN << >>
    ELSE IF RowFits(n)
         THEN LET rows == MatchRows(searchResults[k], n)
              IN  << FileRow(searchResults[k]) >> \o rows
                    \o ResultRows(searchResults, k + 1, n + Len(rows))
         ELSE ResultRows(searchResults, k + 1, n)

\* Count the total number of matches
RECURSIVE CountMatches(_)
CountMatches(searchResults) ==
    IF searchResults = << >> THEN 0
    ELSE Len(Head(searchResults).matches) + CountMatches(Tail(searchResults))

NoSummary == [numMatches |-> 0, numFiles |-> 0, more |-> FALSE]

\* The panel before the search: hidden, and no click handler on its close
\* button.
HiddenPanel ==
    [visible |-> FALSE, summary |-> NoSummary, rows |-> << >>,
     closeHandlers |-> 0]

\* The panel after _showSearchResults(searchResults): the summary and the
\* table are replaced, a one-time click handler is added to the close button
\* and the panel shown when there are results, and the panel is only hidden
\* when there are none.
_showSearchResults(searchResults, panel) ==
    IF Len(searchResults) > 0
    THEN LET numMatches == CountMatches(searchResults)
         IN  [visible |-> TRUE,
              summary |-> [numMatches |-> numMatches,
                           numFiles   |-> Len(searchResults),
                           more       |-> numMatches > FIND_IN_FILES_MAX],
              rows    |-> ResultRows(searchResults, 1, 0),
              closeHandlers |-> panel.closeHandlers + 1]
    ELSE [panel EXCEPT !.visible = FALSE]

(***************************************************************************)
(* The explored inputs: the text of the search field (the editor's         *)
(* selection prefills it) and the texts of the project's files.            *)
(***************************************************************************)
TextAlphabet == {"a", "A", ".", NL}
BodyAlphabet == {"a", ".", "*", BS, "n"}
LiteralAlphabet == MetaChars \cup {"a", "A", "/"}

Slashed(body, flags) == << "/" >> \o body \o << "/" >> \o flags

\* Queries of every shape, against a few texts.
CompileQueries ==
    { Slashed(b, f) : b \in SeqsUpTo(BodyAlphabet, MaxBodyLen),
                      f \in SeqsUpTo(FlagChars, MaxFlagsLen) }
      \cup SeqsUpTo(LiteralAlphabet, MaxLiteralLen)

CompileTexts ==
    { << "a", "A" >>,
      << "a", ".", "a", NL, "A", "*", "a" >>,
      << ".", NL, NL, BS, "n", "(", "/" >>,
      << "(", ")", "{", "}", "[", "]", ".", "^", "$", "|", "?", "+", "*", BS >> }

\* A few queries, against every short text and some long lines.
ScanQueries ==
    { << "a" >>, << "." >>, << "a", "." >>, << ".", "a" >>, << "a", "a" >>,
      Slashed(<< "a" >>, << >>), Slashed(<< "a" >>, << "i" >>),
      Slashed(<< "a", "*" >>, << >>), Slashed(<< BS, "n" >>, << >>),
      Slashed(<< "." >>, << >>), Slashed(<< ".", "*", "a" >>, << "i" >>),
      Slashed(<< BS, "n", "*", "a" >>, << >>), Slashed(<< >>, << >>) }

\* A line of n dots and an `a': the `a' is at column n.
LongLine(n) == Repeat(<< "." >>, n) \o << "a" >>

LongTexts ==
    { LongLine(MaxExcerpt - 2), LongLine(MaxExcerpt - 1), LongLine(MaxExcerpt),
      << "a", NL >> \o LongLine(MaxExcerpt + 1) \o << NL, "A" >> }

ScanTexts == SeqsUpTo(TextAlphabet, MaxTextLen) \cup LongTexts

\* A few queries, against projects of several files.
FindQueries ==
    { << "a" >>, Slashed(<< "a" >>, << >>), Slashed(<< "." >>, << >>),
      Slashed(<< "a", "*" >>, << >>), Slashed(<< "*" >>, << >>), << >> }

FindTexts == { << "a" >>, << "." >>, << "A", NL, "a", "a" >> }

\* n lines holding one `a' each.
ManyLines(n) == Repeat(<< "a", NL >>, n)

\* Projects with fewer, exactly and more than FIND_IN_FILES_MAX matches.
LargeProjects ==
    { << ManyLines(FIND_IN_FILES_MAX - 2), << "a" >> >>,
      << ManyLines(FIND_IN_FILES_MAX - 1), << "a" >> >>,
      << ManyLines(FIND_IN_FILES_MAX - 1), << "a", "a" >>, << "a" >> >>,
      << ManyLines(FIND_IN_FILES_MAX), << "a" >> >> }

Projects == SeqsUpTo(FindTexts, MaxFiles) \cup LargeProjects

(***************************************************************************)
(* The state.                                                              *)
(***************************************************************************)
VARIABLES
    selection,      \* the editor's selection, or what the user types over it
    files,          \* the text of each project file, in file-listing order
    dialog,         \* "none", "open" or "closed" (FindInFilesDialog.closed)
    field,          \* $searchField.val() when a key is pressed
    query,          \* what the dialog's promise was resolved with
    queryExpr,      \* the pattern shared by all files of the search
    listing,        \* getFileInfoList: "idle", "requested" or "received"
    load,           \* per file: "idle", "pending", "scanning", "done", "failed"
    matches,        \* the matches array of the running _getSearchMatches
    searchResults,  \* the searchResults array of doFindInFiles
    numCompleted,   \* doInParallel: the item promises settled so far
    hasFailed,      \* doInParallel: whether an item promise was rejected
    master,         \* doInParallel's promise: "pending", "resolved", "rejected"
    showCalls,      \* the calls of _showSearchResults so far
    panel,          \* the results panel
    settleOrder     \* the files in the order their loads settled

vars == << selection, files, dialog, field, query, queryExpr, listing, load,
           matches, searchResults, numCompleted, hasFailed, master, showCalls,
           panel, settleOrder >>

Files == 1..Len(files)

Init ==
    /\ \/ selection \in CompileQueries /\ files \in { << t >> : t \in CompileTexts }
       \/ selection \in ScanQueries /\ files \in { << t >> : t \in ScanTexts }
       \/ selection \in FindQueries /\ files \in Projects
    /\ dialog = "none"
    /\ field = << >>
    /\ query = Null
    /\ queryExpr = NoRegExp
    /\ listing = "idle"
    /\ load = [f \in Files |-> "idle"]
    /\ matches = << >>
    /\ searchResults = << >>
    /\ numCompleted = 0
    /\ hasFailed = FALSE
    /\ master = "pending"
    /\ showCalls = 0
    /\ panel = HiddenPanel
    /\ settleOrder = << >>

(***************************************************************************)
(* doFindInFiles and the dialog                                            *)
(***************************************************************************)
\* The command: a new dialog, its field prefilled with the selection.
doFindInFiles ==
    /\ dialog = "none"
    /\ dialog' = "open"
    /\ field' = selection
    /\ searchResults' = << >>
    /\ UNCHANGED << selection, files, query, queryExpr, listing, load, matches,
                    numCompleted, hasFailed, master, showCalls, panel,
                    settleOrder >>

\* A variant: if (query !== null)
QueryNotNull(value) == value # Null

\* if (query)
QueryGiven(value) == value # Null /\ value # << >>

\* _close(value), and the done callback of the promise it resolves: with a
\* query, the pattern is compiled and the file list requested; new RegExp
\* throwing ends the callback before the request.
Close(value) ==
    /\ dialog = "open"
    /\ dialog' = "closed"
    /\ query' = value
    /\ IF QueryGiven(value)
       THEN /\ queryExpr' = _getQueryRegExp(value)
            /\ listing' = IF queryExpr'.kind = "RegExp" THEN "requested" ELSE listing
       ELSE UNCHANGED << queryExpr, listing >>
    /\ UNCHANGED << selection, files, field, load, matches, searchResults,
                    numCompleted, hasFailed, master, showCalls, panel,
                    settleOrder >>

\* keydown, keyCode 13
KeydownEnter == Close(field)

\* keydown, keyCode 27
KeydownEsc == Close(Null)

Blur == Close(Null)

(***************************************************************************)
(* The file loads                                                          *)
(***************************************************************************)
Busy == \E f \in Files : load[f] = "scanning"

Scanning == CHOOSE f \in Files : load[f] = "scanning"

\* doInParallel's always-callback of one item, the item's promise having
\* been resolved or rejected: the last one settles the master promise, and
\* the master promise resolved calls _showSearchResults(searchResults).
Settle(resolved, results) ==
    /\ numCompleted' = numCompleted + 1
    /\ hasFailed' = (hasFailed \/ ~resolved)
    /\ IF numCompleted' = Len(files)
       THEN IF hasFailed'
            THEN /\ master' = "rejected"
                 /\ UNCHANGED << showCalls, panel >>
            ELSE /\ master' = "resolved"
                 /\ showCalls' = showCalls + 1
                 /\ panel' = _showSearchResults(results, panel)
       ELSE UNCHANGED << master, showCalls, panel >>

\* getFileInfoList's done callback: doInParallel starts every file's load,
\* and resolves at once when there is no file.
FileInfoListDone ==
    /\ listing = "requested"
    /\ listing' = "received"
    /\ load' = [f \in Files |-> "pending"]
    /\ IF Len(files) = 0
       THEN /\ master' = "resolved"
            /\ showCalls' = showCalls + 1
            /\ panel' = _showSearchResults(searchResults, panel)
       ELSE UNCHANGED << master, showCalls, panel >>
    /\ UNCHANGED << selection, files, dialog, field, query, queryExpr, matches,
                    searchResults, numCompleted, hasFailed, settleOrder >>

\* A variant: every file gets an entry.
KeepsAnyResult(found, list) == TRUE

\* if (matches && matches.length)
KeepsResult(found, list) == found /\ Len(list) > 0

\* A variant: searchResults.unshift(item)
PrependResult(results, item) == << item >> \o results

\* searchResults.push(item)
PushResult(results, item) == Append(results, item)

\* The rest of the load's done callback once _getSearchMatches has returned
\* (found is FALSE for null).
Returned(f, found, list) ==
    /\ load' = [load EXCEPT ![f] = "done"]
    /\ settleOrder' = Append(settleOrder, f)
    /\ searchResults' =
         IF KeepsResult(found, list)
         THEN PushResult(searchResults, [fullPath |-> f, matches |-> list])
         ELSE searchResults
    /\ Settle(TRUE, searchResults')

\* The done callback of a load, up to the first exec: the quick exit when the
\* pattern is not found, the start of the exec loop otherwise.
LoadDone(f) ==
    /\ load[f] = "pending"
    /\ ~Busy
    /\ queryExpr' = [queryExpr EXCEPT
                        !.lastIndex = LastIndexAfterSearch(queryExpr, files[f])]
    /\ IF Search(files[f], queryExpr) = -1
       THEN /\ Returned(f, FALSE, << >>)
            /\ UNCHANGED matches
       ELSE /\ load' = [load EXCEPT ![f] = "scanning"]
            /\ matches' = << >>
            /\ UNCHANGED << searchResults, numCompleted, hasFailed,
                            master, showCalls, panel, settleOrder >>
    /\ UNCHANGED << selection, files, dialog, field, query, listing >>

\* Whether the loop has pushed this same empty match MaxSpin times already.
Spinning(m, record) ==
    /\ m.end = m.index
    /\ Len(matches) >= MaxSpin
    /\ \A k \in (Len(matches) - MaxSpin + 1)..Len(matches) : matches[k] = record

\* One iteration of the exec loop: exec finds a match and its record is pushed.
ExecMatch ==
    /\ Busy
    /\ LET contents == files[Scanning]
           m == Exec(queryExpr, contents)
           record == MatchRecord(contents, getLines(contents), m)
       IN  /\ m.index # -1
           /\ ~Spinning(m, record)
           /\ queryExpr' = [queryExpr EXCEPT !.lastIndex = LastIndexAfter(m)]
           /\ matches' = Append(matches, record)
    /\ UNCHANGED << selection, files, dialog, field, query, listing, load,
                    searchResults, numCompleted, hasFailed, master, showCalls,
                    panel, settleOrder >>

\* The end of the exec loop: exec finds nothing, _getSearchMatches returns
\* its matches and the callback goes on.
ExecNull ==
    /\ Busy
    /\ LET m == Exec(queryExpr, files[Scanning])
       IN  /\ m.index = -1
           /\ queryExpr' = [queryExpr EXCEPT !.lastIndex = LastIndexAfter(m)]
    /\ Returned(Scanning, TRUE, matches)
    /\ matches' = << >>
    /\ UNCHANGED << selection, files, dialog, field, query, listing >>

\* A variant: the fail callback rejects the item's promise.
FailHandlerRejects == FALSE

\* The fail callback of a load resolves the item's promise.
FailHandlerResolves == TRUE

\* A load fails: the file contributes nothing.
LoadFail(f) ==
    /\ load[f] = "pending"
    /\ ~Busy
    /\ load' = [load EXCEPT ![f] = "failed"]
    /\ settleOrder' = Append(settleOrder, f)
    /\ Settle(FailHandlerResolves, searchResults)
    /\ UNCHANGED << selection, files, dialog, field, query, queryExpr, listing,
                    matches, searchResults >>

\* A click on the panel's close button: the handlers added with one("click")
\* run and are removed, each hiding the panel. The button is there to click
\* while the panel is shown.
CloseClick ==
    /\ panel.visible
    /\ panel.closeHandlers > 0
    /\ panel' = [panel EXCEPT !.visible = FALSE, !.closeHandlers = 0]
    /\ UNCHANGED << selection, files, dialog, field, query, queryExpr, listing,
                    load, matches, searchResults, numCompleted, hasFailed,
                    master, showCalls, settleOrder >>

Next ==
    \/ doFindInFiles
    \/ KeydownEnter
    \/ KeydownEsc
    \/ Blur
    \/ FileInfoListDone
    \/ \E f \in Files : LoadDone(f)
    \/ ExecMatch
    \/ ExecNull
    \/ \E f \in Files : LoadFail(f)
    \/ CloseClick

Spec == Init /\ [][Next]_vars

(***************************************************************************)
(* The properties, and what they speak of stated on the text itself.      *)
(***************************************************************************)
\* The number of line breaks before the offset.
BreaksBefore(text, offset) ==
    Cardinality({ j \in 1..offset : text[j] = NL })

\* The offset at which the line holding the offset starts: just after the
\* last line break before the offset.
LineStart(text, offset) ==
    CHOOSE j \in 0..offset :
        /\ j = 0 \/ text[j] = NL
        /\ \A i \in (j + 1)..offset : text[i] # NL

\* The offset at which that line ends: its line break, or the end of the text.
LineEnd(text, offset) ==
    CHOOSE j \in offset..Len(text) :
        /\ j = Len(text) \/ text[j + 1] = NL
        /\ \A i \in (offset + 1)..j : text[i] # NL

FullLine(text, offset) ==
    SubSeq(text, LineStart(text, offset) + 1, LineEnd(text, offset))

\* The match the exec loop pushed last, and the offset it was found at: the
\* scan position is its end.
LastPushed == matches[Len(matches)]

LastOffset == queryExpr.lastIndex - (LastPushed.end.ch - LastPushed.start.ch)

Pushed == Busy /\ matches # << >>

\* The matches recorded for file f, none when it has no entry.
MatchesOf(f) ==
    IF \E k \in 1..Len(searchResults) : searchResults[k].fullPath = f
    THEN searchResults[CHOOSE k \in 1..Len(searchResults) :
                           searchResults[k].fullPath = f].matches
    ELSE << >>

EntriesOf(f) ==
    Cardinality({ k \in 1..Len(searchResults) : searchResults[k].fullPath = f })

AllSettled ==
    listing = "received" /\ \A f \in Files : load[f] \in {"done", "failed"}

\* C1: every iteration of the exec loop moves the scan position forward, so
\* the loop of _getSearchMatches cannot push the same match again and again.
ScanAdvances ==
    [][(Busy /\ Busy') => queryExpr'.lastIndex > queryExpr.lastIndex]_vars

\* The flag letters the user wrote after the closing slash.
SuppliedFlags(q) == { q[j] : j \in (LastSlash(q) + 1)..Len(q) }

\* C2: the pattern compiled from /body/flags is global, and is case-insensitive
\* exactly when the letter i is among the flags the user wrote.
SuppliedFlagsKept ==
    (dialog = "closed" /\ queryExpr.kind = "RegExp" /\ IsRE(query))
        => /\ queryExpr.global
           /\ queryExpr.ignoreCase <=> ("i" \in SuppliedFlags(query))

\* Lower case of the letters in use.
Fold(c) ==
    CASE c = "A" -> "a"
      [] c = "G" -> "g"
      [] c = "I" -> "i"
      [] c = "N" -> "n"
      [] OTHER   -> c

\* The offsets at which the string q occurs in the text, letter case aside.
Occurrences(q, text) ==
    { p \in 0..(Len(text) - Len(q)) :
        \A j \in 1..Len(q) : Fold(text[p + j]) = Fold(q[j]) }

\* The start and end an occurrence of length n at offset p is to be reported at.
PositionOf(text, p, n) ==
    LET line == BreaksBefore(text, p)
        column == p - LineStart(text, p)
    IN  [start |-> [line |-> line, ch |-> column],
         end   |-> [line |-> line, ch |-> column + n]]

PositionsOf(list) ==
    { [start |-> list[k].start, end |-> list[k].end] : k \in 1..Len(list) }

\* Whether the matches listed are the occurrences of q in the text, taken
\* from the left without overlap: each match is an occurrence, no two
\* overlap, each occurrence left out overlaps a match starting before it,
\* and no match is listed twice.
LiteralMatches(q, text, list) ==
    LET n == Len(q)
        occ == Occurrences(q, text)
        found == PositionsOf(list)
        taken == { p \in occ : PositionOf(text, p, n) \in found }
    IN  /\ found = { PositionOf(text, p, n) : p \in taken }
        /\ Len(list) = Cardinality(taken)
        /\ \A p \in taken, r \in taken : p < r => p + n <= r
        /\ \A p \in occ \ taken : \E r \in taken : r < p /\ p < r + n

LiteralQuery == dialog = "closed" /\ query # Null /\ query # << >> /\ ~IsRE(query)

\* C3: for a query that is not of the /body/flags shape, the matches found in
\* a file are exactly the non-overlapping occurrences of the query string
\* itself in the file's text, letter case aside.
LiteralQueryFindsOccurrences ==
    LiteralQuery =>
        \A f \in Files :
            load[f] = "done" => LiteralMatches(query, files[f], MatchesOf(f))

\* C3's case: a literal query holding a metacharacter was found in a file.
LiteralOccurrenceFound ==
    /\ LiteralQuery
    /\ \E k \in 1..Len(query) : query[k] \in MetaChars
    /\ \E f \in Files : load[f] = "done" /\ Len(MatchesOf(f)) > 0

\* C4: a match is reported at the line counting the line breaks before its
\* offset and at a column that is not negative and leads, from the start of
\* that line, to the offset.
StartIsLineAndColumn ==
    Pushed =>
        LET text == files[Scanning] IN
        /\ LastPushed.start.line = BreaksBefore(text, LastOffset)
        /\ LastPushed.start.ch >= 0
        /\ LineStart(text, LastOffset) + LastPushed.start.ch = LastOffset

\* Whether the pattern of the search matches somewhere in the text.
HasMatch(text) ==
    \E i \in 0..Len(text) :
        MatchHere(queryExpr.atoms, 1, text, i, queryExpr.ignoreCase) # -1

\* C5: the search never fails, and the result set handed to
\* _showSearchResults holds one entry for each file that was loaded and
\* holds a match, and no other entry.
ResultsAreLoadedFilesWithMatches ==
    /\ master # "rejected"
    /\ master = "resolved" =>
         \A f \in Files :
             EntriesOf(f) = IF load[f] = "done" /\ HasMatch(files[f]) THEN 1 ELSE 0

\* C5's case: results were shown after one load failed, another file matched
\* and a third held no match.
ShownAfterFailedLoad ==
    /\ master = "resolved"
    /\ showCalls = 1
    /\ \E f \in Files : load[f] = "failed"
    /\ \E f \in Files : EntriesOf(f) = 1
    /\ \E f \in Files : load[f] = "done" /\ EntriesOf(f) = 0

\* C6: _showSearchResults is called at most once, never while a load is
\* pending, and has been called once every load has settled.
ShownOnceAllSettled ==
    /\ showCalls <= 1
    /\ showCalls = 1 <=> AllSettled

\* C6's case: results were shown after two loads settled against the listing
\* order, one of them failing.
ShownAfterInterleavedLoads ==
    /\ showCalls = 1
    /\ Len(settleOrder) >= 2
    /\ settleOrder[1] > settleOrder[2]
    /\ \E f \in Files : load[f] = "failed"

\* C7 as claimed: the entries of the result set shown are in file-listing order.
ResultsInListingOrder ==
    master = "resolved" =>
        \A j, k \in 1..Len(searchResults) :
            j < k => searchResults[j].fullPath < searchResults[k].fullPath

\* The place of file f in the order the loads settled.
SettledAt(f) == CHOOSE k \in 1..Len(settleOrder) : settleOrder[k] = f

\* C7, amended: the entries of the result set are in the order in which the
\* loads of their files completed.
ResultsInCompletionOrder ==
    \A j, k \in 1..Len(searchResults) :
        j < k => SettledAt(searchResults[j].fullPath)
                   < SettledAt(searchResults[k].fullPath)

\* C7's case: the result set shown lists a later file before an earlier one.
ShownOutOfListingOrder ==
    /\ master = "resolved"
    /\ Len(searchResults) >= 2
    /\ searchResults[1].fullPath > searchResults[2].fullPath

\* C8: closing the dialog with an empty query or with none compiles no
\* pattern, requests no file list, starts no load, shows nothing and leaves
\* the panel as it was, then and ever after.
NoSearchWithoutQuery ==
    [][(dialog' = "closed" /\ (query' = Null \/ query' = << >>))
         => /\ queryExpr' = NoRegExp
            /\ listing' = "idle"
            /\ \A f \in Files : load'[f] = "idle"
            /\ searchResults' = << >>
            /\ showCalls' = showCalls
            /\ panel' = panel]_vars

\* C8's case: the dialog was closed by Enter on an empty field.
ClosedWithEmptyQuery ==
    dialog = "closed" /\ query = << >> /\ field = << >>

\* The matches of a result set, one after the other.
RECURSIVE Hits(_)
Hits(results) ==
    IF results = << >> THEN << >>
    ELSE [j \in 1..Len(Head(results).matches) |->
              [fullPath |-> Head(results).fullPath,
               match |-> Head(results).matches[j]]]
           \o Hits(Tail(results))

IsMatchRow(row) == row.kind = "match"

\* C9: the panel holds the first min(100, total) matches of the result set,
\* in its order, while every file has been loaded, every loaded file holding
\* a match has its matches in the result set and the summary counts them
\* all; the panel is shown until its close button is clicked, and with no
\* match it is hidden.
RendersFirstHundred ==
    master = "resolved" =>
        LET hits == Hits(searchResults)
            shown == SelectSeq(panel.rows, IsMatchRow)
        IN  /\ AllSettled
            /\ \A f \in Files :
                 load[f] = "done" => (Len(MatchesOf(f)) > 0 <=> HasMatch(files[f]))
            /\ IF Len(searchResults) = 0 THEN ~panel.visible
               ELSE /\ panel.visible <=> panel.closeHandlers = 1
                    /\ panel.summary.numMatches = Len(hits)
                    /\ Len(shown) = Min(FIND_IN_FILES_MAX, Len(hits))
                    /\ \A k \in 1..Len(shown) :
                         /\ shown[k].fullPath = hits[k].fullPath
                         /\ shown[k].match = hits[k].match

\* C9's case: more than 100 matches in several files, 100 of them shown, and
\* a file in the result set of which nothing is shown.
ShownCapped ==
    /\ master = "resolved"
    /\ panel.visible
    /\ panel.summary.numMatches > FIND_IN_FILES_MAX
    /\ NumMatchRows(panel.rows) = FIND_IN_FILES_MAX
    /\ \E k \in 1..Len(searchResults) :
         \A j \in 1..Len(panel.rows) :
             panel.rows[j].fullPath # searchResults[k].fullPath

\* C10: the excerpt of a match is the first min(200, length) characters of
\* the whole line holding it, and a match within a line keeps the columns it
\* has in the whole line, however long the line.
ExcerptIsLinePrefix ==
    Pushed =>
        LET text == files[Scanning]
            line == FullLine(text, LastOffset)
        IN  /\ Len(LastPushed.line) = Min(MaxExcerpt, Len(line))
            /\ LastPushed.line = SubSeq(line, 1, Len(LastPushed.line))
            /\ (LastOffset = Len(text) \/ text[LastOffset + 1] # NL)
                 => /\ LastPushed.start.ch = LastOffset - LineStart(text, LastOffset)
                    /\ LastPushed.end.ch = queryExpr.lastIndex - LineStart(text, LastOffset)

\* C10's case: a match beyond column 200, its excerpt cut to 200 characters.
MatchBeyondExcerpt ==
    /\ Pushed
    /\ LastPushed.start.ch >= MaxExcerpt
    /\ Len(LastPushed.line) = MaxExcerpt

\* The matches an exec loop pushes for the offsets lo..hi of the text, the
\* scan position being from when the loop reaches lo, and the scan position
\* it leaves lo..hi with. (An empty match is listed once here; the loop
\* finding one does not return.)
RECURSIVE ScanRange(_, _, _, _, _, _)
ScanRange(re, text, lines, lo, hi, from) ==
    IF lo > hi THEN [list |-> << >>, next |-> from]
    ELSE IF lo = hi
         THEN LET e == IF from <= lo
                       THEN MatchHere(re.atoms, 1, text, lo, re.ignoreCase)
                       ELSE -1
              IN  IF e = -1 THEN [list |-> << >>, next |-> from]
                  ELSE [list |-> << MatchRecord(text, lines,
                                                [index |-> lo, end |-> e]) >>,
                        next |-> IF e = lo THEN lo + 1 ELSE e]
         ELSE LET mid == (lo + hi) \div 2
                  left == ScanRange(re, text, lines, lo, mid, from)
                  right == ScanRange(re, text, lines, mid + 1, hi, left.next)
              IN  [list |-> left.list \o right.list, next |-> right.next]

\* What the exec loop yields for the text alone: the query compiled anew,
\* its scan position 0, and no other file scanned before.
MatchesAlone(q, text) ==
    ScanRange(_getQueryRegExp(q), text, getLines(text), 0, Len(text), 0).list

\* The exec loop of a file is about to start, or no file is being scanned.
AtScanStart == ~Busy \/ matches = << >>

\* C11: the scan position of the shared pattern is 0 whenever the exec loop
\* of a file starts and between the scans of two files, and the matches
\* recorded for a scanned file are those of its text and the query alone,
\* whichever files were scanned before it and in whichever order.
ScanIsIndependent ==
    queryExpr.kind = "RegExp" =>
        /\ AtScanStart => queryExpr.lastIndex = 0
        /\ \A f \in Files :
             load[f] = "done" => MatchesOf(f) = MatchesAlone(query, files[f])

\* C11's case: a file of several matches was scanned after a file listed
\* after it, of another text, whose scan had moved the scan position.
ScannedAfterLaterFile ==
    /\ queryExpr.kind = "RegExp"
    /\ \E f, g \in Files :
         /\ f < g
         /\ files[f] # files[g]
         /\ load[f] = "done" /\ load[g] = "done"
         /\ SettledAt(g) < SettledAt(f)
         /\ Len(MatchesOf(g)) > 0
         /\ Len(MatchesOf(f)) > 1

====
